---- MODULE Spec2Model ----
(***************************************************************************)
(* Model of the in-memory job queue of video_voice_remover                 *)
(* (server/jobQueue.ts, two-stage version): the job registry, the FIFO     *)
(* admission queue, the single background worker and the processing        *)
(* pipeline (audio stage, optional visual stage, upload to storage).       *)
(*                                                                         *)
(* Job objects are JavaScript references: the registry maps an id to a     *)
(* reference, and a pipeline keeps mutating the object it was given even   *)
(* when the registry no longer holds it.  The heap is therefore a sequence *)
(* of job records and a reference is an index into it.                     *)
(***************************************************************************)
EXTENDS Integers, Sequences, FiniteSets, TLC

\* ---------------------------------------------------------------- bounds
MaxJobs == 3
MaxSteps == 2
MaxClock == 2
MaxLiveJobs == 2
MaxChunk == 2
MaxStream == 3

\* ------------------------------------------------------------- constants
RetentionMs == 86400000
UploadProgress == 95
DoneProgress == 100
RemapBase == 50
SpawnErrorCode == 1

\* ---------------------------------------------------------- input domains
Ids == {"a", "b"}
InputPaths == {<<"up", ".mp4">>}
Names == {"video.mp4"}
Percents == {-120, 40, 100}
NoPercent == -1000
TracePercents == {0, 10, 40, 100, NoPercent}
NoStr == ""
Undef == -1
NoJob == 0
NoError == <<>>
ErrMsgs == {<<"e1">>, <<"e2">>}
PutErrors == {"Error: storage unavailable"}
ReadError == "Error: read failed"
ExitCodes == {0, 2}
Url == "https://storage/processed.mp4"

VARIABLES jobs, heap, jobQueue, isWorkerRunning, immediates, pipe, disk,
          now, putCalls, startOrder, offContract, hist, liveIds, jobKeys

vars == <<jobs, heap, jobQueue, isWorkerRunning, immediates, pipe, disk,
          now, putCalls, startOrder, offContract, hist, liveIds, jobKeys>>

\* putCalls, startOrder, offContract, hist and liveIds are history
\* variables: the program does not hold them.  liveIds is the set of ids
\* created and not deleted since; hist is described with the environment.
\* jobKeys is the order in which the Map `jobs` holds its keys.

Refs == 1..Len(heap)

\* ------------------------------------------------------------ path helpers
\* String.replace(/\.mp4$/i, suffix + ".mp4") on a path held as tokens whose
\* last token is the extension.
ReplaceMp4(p, suffix) ==
  IF Len(p) > 0 /\ p[Len(p)] \in {".mp4", ".MP4"}
  THEN SubSeq(p, 1, Len(p) - 1) \o <<suffix, ".mp4">>
  ELSE p

OutputPathOf(j) == ReplaceMp4(j.inputPath, "_processed")
VisualOutputPathOf(j) == ReplaceMp4(j.inputPath, "_final")
FinalOutputPathOf(j) ==
  IF j.visualPerturb THEN VisualOutputPathOf(j) ELSE OutputPathOf(j)

\* try { if (fs.existsSync(p)) fs.unlinkSync(p) } catch {}
Unlink(d, p, ok) == IF ok THEN d \ {p} ELSE d

\* ------------------------------------------------------------------- Init
Init ==
  /\ jobs = [i \in Ids |-> NoJob]
  /\ heap = <<>>
  /\ jobQueue = <<>>
  /\ isWorkerRunning = FALSE
  /\ immediates = 0
  /\ pipe = <<>>
  /\ disk = {}
  /\ now = 1
  /\ putCalls = <<>>
  /\ startOrder = <<>>
  /\ offContract = {}
  /\ hist = <<>>
  /\ liveIds = {}
  /\ jobKeys = <<>>

\* --------------------------------------------------------------- createJob
\* Date.now(): the clock has advanced by dt since it was last read
DateNow(dt) == now + dt

NewJob(id, originalName, inputPath, visualPerturb, t) ==
  [id |-> id, originalName |-> originalName, inputPath |-> inputPath,
   outputPath |-> <<>>,
   visualPerturb |-> visualPerturb, status |-> "queued", progress |-> 0,
   steps |-> <<>>, error |-> NoError, createdAt |-> t,
   completedAt |-> Undef, expiresAt |-> Undef, downloadUrl |-> NoStr]

\* scheduleWorker without its test of the running flag
ScheduleWorkerMut(running, n) == n + 1

\* scheduleWorker: setImmediate(runWorker) unless a worker is running
ScheduleWorker(running, n) == IF running THEN n ELSE n + 1

\* Map.prototype.set and delete on the order of the keys: a new key goes to
\* the end, a key the map holds keeps its place
MapSet(keys, id) ==
  IF \E i \in 1..Len(keys) : keys[i] = id THEN keys ELSE Append(keys, id)
MapDelete(keys, id) == SelectSeq(keys, LAMBDA k : k # id)

\* line 52: return job, the reference of the object the call has made
CreateJobReturn == Len(heap) + 1

\* a create that, for an id the registry holds, resets the object the
\* registry holds instead of making a new one
CreateJobMut(id, originalName, inputPath, visualPerturb, dt) ==
  /\ Len(heap) < MaxJobs
  /\ DateNow(dt) <= MaxClock
  /\ now' = DateNow(dt)
  /\ IF jobs[id] # NoJob
     THEN /\ heap' = [heap EXCEPT ![jobs[id]] =
                        NewJob(id, originalName, inputPath, visualPerturb,
                               DateNow(dt))]
          /\ UNCHANGED <<pipe, putCalls, jobs>>
     ELSE /\ heap' = Append(heap, NewJob(id, originalName, inputPath,
                                         visualPerturb, DateNow(dt)))
          /\ pipe' = Append(pipe, "idle")
          /\ putCalls' = Append(putCalls, 0)
          /\ jobs' = [jobs EXCEPT ![id] = CreateJobReturn]
  /\ jobQueue' = Append(jobQueue, id)
  /\ immediates' = ScheduleWorker(isWorkerRunning, immediates)
  /\ disk' = disk \cup {inputPath}
  /\ liveIds' = liveIds \cup {id}
  /\ jobKeys' = MapSet(jobKeys, id)
  /\ UNCHANGED <<isWorkerRunning, startOrder, offContract>>

\* lines 37-53
CreateJob(id, originalName, inputPath, visualPerturb, dt) ==
  /\ Len(heap) < MaxJobs
  /\ DateNow(dt) <= MaxClock
  /\ now' = DateNow(dt)
  /\ heap' = Append(heap, NewJob(id, originalName, inputPath, visualPerturb,
                               DateNow(dt)))
  /\ pipe' = Append(pipe, "idle")
  /\ putCalls' = Append(putCalls, 0)
  /\ jobs' = [jobs EXCEPT ![id] = CreateJobReturn]
  /\ jobQueue' = Append(jobQueue, id)
  /\ immediates' = ScheduleWorker(isWorkerRunning, immediates)
  /\ disk' = disk \cup {inputPath}
  /\ liveIds' = liveIds \cup {id}
  /\ jobKeys' = MapSet(jobKeys, id)
  /\ UNCHANGED <<isWorkerRunning, startOrder, offContract>>

\* ------------------------------------------------------- getJob, getAllJobs
\* getJob that hides the jobs that ended in error
GetJobMut(id) ==
  IF jobs[id] # NoJob /\ heap[jobs[id]].status = "error" THEN NoJob
                                                          ELSE jobs[id]

\* lines 55-57: jobs.get(id); NoJob stands for undefined
GetJob(id) == jobs[id]

\* routers.ts, video.getJobStatus: null, or the fields of the job it
\* returns (held in a one-element sequence, null being the empty one)
Null == <<>>
GetJobStatus(id) ==
  LET job == GetJob(id)
  IN IF job = NoJob
     THEN Null
     ELSE <<[id |-> heap[job].id,
             originalName |-> heap[job].originalName,
             status |-> heap[job].status,
             progress |-> heap[job].progress,
             steps |-> heap[job].steps,
             error |-> heap[job].error,
             downloadUrl |-> heap[job].downloadUrl,
             createdAt |-> heap[job].createdAt,
             completedAt |-> heap[job].completedAt,
             expiresAt |-> heap[job].expiresAt]>>

\* line 60: the jobs of Array.from(jobs.values())
JobsValues == {jobs[id] : id \in Ids} \ {NoJob}

\* line 60: Array.from(jobs.values()), in the order of the keys
ValuesArray == [i \in 1..Len(jobKeys) |-> jobs[jobKeys[i]]]

\* the comparator with its operands exchanged: oldest first
SortsAfterMut(a, b) == heap[a].createdAt - heap[b].createdAt > 0

\* line 60: (a, b) => b.createdAt - a.createdAt is positive: a sorts after b
SortsAfter(a, b) == heap[b].createdAt - heap[a].createdAt > 0

RECURSIVE InsertSorted(_, _)
\* x put into the sorted s behind every element it does not sort before
InsertSorted(s, x) ==
  IF s = <<>> THEN <<x>>
  ELSE IF SortsAfter(Head(s), x) THEN <<x>> \o s
  ELSE <<Head(s)>> \o InsertSorted(Tail(s), x)

RECURSIVE StableSort(_, _)
\* Array.prototype.sort is stable: equal elements keep their order
StableSort(done, rest) ==
  IF rest = <<>> THEN done
  ELSE StableSort(InsertSorted(done, Head(rest)), Tail(rest))

\* lines 59-61
GetAllJobs == StableSort(<<>>, ValuesArray)

\* --------------------------------------------------------------- deleteJob
\* deleteJob that leaves the output file behind
DeleteJobMut(id, okIn, okOut) ==
  /\ IF jobs[id] # NoJob
     THEN LET j == heap[jobs[id]]
          IN /\ disk' = Unlink(disk, j.inputPath, okIn)
             /\ jobs' = [jobs EXCEPT ![id] = NoJob]
     ELSE UNCHANGED <<disk, jobs>>
  /\ liveIds' = liveIds \ {id}
  /\ jobKeys' = MapDelete(jobKeys, id)
  /\ UNCHANGED <<heap, jobQueue, isWorkerRunning, immediates, pipe, now,
                 putCalls, startOrder, offContract>>

\* lines 63-75
DeleteJob(id, okIn, okOut) ==
  /\ IF jobs[id] # NoJob
     THEN LET j == heap[jobs[id]]
              d1 == Unlink(disk, j.inputPath, okIn)
              d2 == IF j.outputPath # <<>>
                    THEN Unlink(d1, j.outputPath, okOut) ELSE d1
          IN /\ disk' = d2
             /\ jobs' = [jobs EXCEPT ![id] = NoJob]
     ELSE UNCHANGED <<disk, jobs>>
  /\ liveIds' = liveIds \ {id}
  /\ jobKeys' = MapDelete(jobKeys, id)
  /\ UNCHANGED <<heap, jobQueue, isWorkerRunning, immediates, pipe, now,
                 putCalls, startOrder, offContract>>

\* --------------------------------------------------- runWorker (the loop)
\* the dequeue-time check without the status test
SkipEntryMut(r, h) == r = NoJob

\* line 90: if (!job || job.status !== "queued") continue;
SkipEntry(r, h) == r = NoJob \/ h[r].status # "queued"

\* a loop that hands every id it shifts to the pipeline
NextRunnableMut(q, h) ==
  IF q = <<>>
  THEN [rest |-> <<>>, ref |-> NoJob]
  ELSE [rest |-> Tail(q), ref |-> jobs[Head(q)]]

RECURSIVE NextRunnable(_, _)
\* lines 87-90: shift ids off the queue until one names a queued job
NextRunnable(q, h) ==
  IF q = <<>>
  THEN [rest |-> <<>>, ref |-> NoJob]
  ELSE LET r == jobs[Head(q)]
       IN IF SkipEntry(r, h)
          THEN NextRunnable(Tail(q), h)
          ELSE [rest |-> Tail(q), ref |-> r]

\* processJob, lines 121-126: the part that runs before the first await
ProcessJobStart(j) ==
  [j EXCEPT !.status = "processing", !.outputPath = FinalOutputPathOf(j)]

\* a loop that runs while the queue holds more than one id
WorkerLoopMut(h, p, d, running, spawnOk) ==
  LET nr == IF Len(jobQueue) <= 1
            THEN [rest |-> jobQueue, ref |-> NoJob]
            ELSE NextRunnable(jobQueue, h)
      r == nr.ref
  IN /\ jobQueue' = nr.rest
     /\ disk' = d
     /\ IF r = NoJob
        THEN /\ heap' = h
             /\ pipe' = p
             /\ isWorkerRunning' = FALSE
             /\ startOrder' = startOrder
        ELSE /\ heap' = [h EXCEPT ![r] = ProcessJobStart(@)]
             /\ pipe' = [p EXCEPT ![r] = IF spawnOk THEN "stage1"
                                                   ELSE "spawnerr1"]
             /\ isWorkerRunning' = running
             /\ startOrder' = Append(startOrder, r)

\* The worker's loop from its head: either it finds a runnable job, starts
\* its pipeline (which suspends on the audio stage) or the queue is drained
\* and the running flag is cleared.  h, p, d are the heap, the pipeline
\* positions and the disk as left by the handler that resumes the worker.
WorkerLoop(h, p, d, running, spawnOk) ==
  LET nr == NextRunnable(jobQueue, h)
      r == nr.ref
  IN /\ jobQueue' = nr.rest
     /\ disk' = d
     /\ IF r = NoJob
        THEN /\ heap' = h
             /\ pipe' = p
             /\ isWorkerRunning' = FALSE
             /\ startOrder' = startOrder
        ELSE /\ heap' = [h EXCEPT ![r] = ProcessJobStart(@)]
             /\ pipe' = [p EXCEPT ![r] = IF spawnOk THEN "stage1"
                                                   ELSE "spawnerr1"]
             /\ isWorkerRunning' = running
             /\ startOrder' = Append(startOrder, r)

\* runWorker without its guard
WorkerBusyMut == FALSE

\* line 84: if (isWorkerRunning) return;
WorkerBusy == isWorkerRunning

\* the setImmediate callback
RunWorker(spawnOk) ==
  /\ immediates > 0
  /\ immediates' = immediates - 1
  /\ IF WorkerBusy
     THEN UNCHANGED <<heap, pipe, disk, jobQueue, isWorkerRunning,
                      startOrder>>
     ELSE WorkerLoop(heap, pipe, disk, TRUE, spawnOk)
  /\ UNCHANGED <<jobs, now, putCalls, offContract, liveIds,
                 jobKeys>>

\* ------------------------------------------------- processJob: the events
StepEvents ==
  [step : {"extract"}, percent : Percents \cup {NoPercent},
   message : {"msg"}, error : {NoError}]
ErrorEvents ==
  [step : {NoStr}, percent : {NoPercent}, message : {NoStr},
   error : ErrMsgs]
Events == StepEvents \cup ErrorEvents

\* addStep keeping only the latest step record
AddStepMut(j, parsed, t) ==
  IF parsed.error # NoError
  THEN [j EXCEPT !.status = "error", !.error = parsed.error]
  ELSE IF parsed.step # NoStr
  THEN [j EXCEPT
          !.progress = IF parsed.percent # NoPercent THEN parsed.percent
                                                      ELSE @,
          !.steps = <<[step |-> parsed.step,
                       percent |-> IF parsed.percent # NoPercent
                                   THEN parsed.percent ELSE 0,
                       message |-> parsed.message,
                       timestamp |-> t]>>]
  ELSE j

\* lines 132-147
AddStep(j, parsed, t) ==
  IF parsed.error # NoError
  THEN [j EXCEPT !.status = "error", !.error = parsed.error]
  ELSE IF parsed.step # NoStr
  THEN [j EXCEPT
          !.progress = IF parsed.percent # NoPercent THEN parsed.percent
                                                      ELSE @,
          !.steps = Append(@,
             [step |-> parsed.step,
              percent |-> IF parsed.percent # NoPercent THEN parsed.percent
                                                         ELSE 0,
              message |-> parsed.message,
              timestamp |-> t])]
  ELSE j

\* the remap with the stage's full range as its factor
RemapMut(p) == RemapBase + p

\* line 174: 50 + Math.round(percent * 0.45); Math.round rounds halves up
Remap(p) == RemapBase + ((9 * p + 10) \div 20)

\* the callback that truncates where line 174 rounds
VisualCallbackMut(j, parsed, t) ==
  IF parsed.step # NoStr
  THEN AddStep(j, [parsed EXCEPT
                     !.percent = RemapBase +
                       ((9 * (IF @ = NoPercent THEN 0 ELSE @)) \div 20)], t)
  ELSE AddStep(j, parsed, t)

\* lines 171-179
VisualCallback(j, parsed, t) ==
  IF parsed.step # NoStr
  THEN AddStep(j, [parsed EXCEPT
                     !.percent = Remap(IF @ = NoPercent THEN 0 ELSE @)], t)
  ELSE AddStep(j, parsed, t)

\* the stage program contract: percent, when given, is an integer of 0..100
InContract(parsed) == parsed.percent = NoPercent \/ parsed.percent \in 0..100

\* the callback that looks the job up by its id when an event arrives
StageEventMut(r, parsed, dt) ==
  /\ r \in Refs
  /\ pipe[r] \in {"stage1", "stage2"}
  /\ parsed.step # NoStr => Len(heap[r].steps) < MaxSteps
  /\ DateNow(dt) <= MaxClock
  /\ LET t == IF jobs[heap[r].id] # NoJob THEN jobs[heap[r].id] ELSE r
     IN heap' = [heap EXCEPT ![t] =
                   IF pipe[r] = "stage1" THEN AddStep(@, parsed, DateNow(dt))
                   ELSE VisualCallback(@, parsed, DateNow(dt))]
  /\ now' = IF parsed.error = NoError /\ parsed.step # NoStr
            THEN DateNow(dt) ELSE now
  /\ offContract' = IF InContract(parsed) THEN offContract
                                            ELSE offContract \cup {r}
  /\ UNCHANGED <<jobs, jobQueue, isWorkerRunning, immediates, pipe, disk,
                 putCalls, startOrder, liveIds, jobKeys>>

\* a well-formed line on the stdout of the running stage
StageEvent(r, parsed, dt) ==
  /\ r \in Refs
  /\ pipe[r] \in {"stage1", "stage2"}
  /\ parsed.step # NoStr => Len(heap[r].steps) < MaxSteps
  /\ DateNow(dt) <= MaxClock
  /\ heap' = [heap EXCEPT ![r] = IF pipe[r] = "stage1"
                                 THEN AddStep(@, parsed, DateNow(dt))
                                 ELSE VisualCallback(@, parsed, DateNow(dt))]
  /\ now' = IF parsed.error = NoError /\ parsed.step # NoStr
            THEN DateNow(dt) ELSE now
  /\ offContract' = IF InContract(parsed) THEN offContract
                                            ELSE offContract \cup {r}
  /\ UNCHANGED <<jobs, jobQueue, isWorkerRunning, immediates, pipe, disk,
                 putCalls, startOrder, liveIds, jobKeys>>

\* ------------------------------------------- runPythonScript: the stdout
\* What a stage writes to its stdout is a sequence of tokens: the newline,
\* a text that is no JSON, and the pieces of the JSON texts of the events.
\* The text of a step event is held in two tokens, so that a chunk may end
\* in the middle of it; no piece of a JSON object text is a JSON text.
NL == "\n"
Garbage == "not json"
EmptyEvent ==
  [step |-> NoStr, percent |-> NoPercent, message |-> NoStr,
   error |-> NoError]
StdoutEvents ==
  {[step |-> "extract", percent |-> 40, message |-> "msg",
    error |-> NoError],
   [step |-> NoStr, percent |-> NoPercent, message |-> NoStr,
    error |-> <<"e1">>],
   EmptyEvent}

\* the line a stage prints for an event
JsonText(e) ==
  IF e.step # NoStr THEN <<"{step:extract,", "percent:40,message:msg}">>
  ELSE IF e.error # NoError THEN <<"{error:e1}">>
  ELSE <<"{}">>

StdoutTokens ==
  {NL, Garbage} \cup
  UNION {{JsonText(e)[i] : i \in 1..Len(JsonText(e))} : e \in StdoutEvents}

\* the data chunks a read of the pipe may return
Chunks == UNION {[1..n -> StdoutTokens] : n \in 1..MaxChunk}

\* JSON.parse(line): the event in a one-element sequence, or the empty
\* sequence when it throws
JsonParse(line) ==
  LET m == {e \in StdoutEvents : JsonText(e) = line}
  IN IF m = {} THEN <<>> ELSE <<CHOOSE e \in m : TRUE>>

RECURSIVE SplitNL(_, _)
\* text.split("\n"), cur being the piece that is being read
SplitNL(text, cur) ==
  IF text = <<>> THEN <<cur>>
  ELSE IF Head(text) = NL THEN <<cur>> \o SplitNL(Tail(text), <<>>)
  ELSE SplitNL(Tail(text), Append(cur, Head(text)))

\* line 107: data.toString().split("\n").filter(Boolean)
Lines(chunk) == SelectSeq(SplitNL(chunk, <<>>), LAMBDA l : l # <<>>)

\* the callback processJob hands to runPythonScript for the stage
OnProgress(j, stage, parsed, t) ==
  IF stage = 1 THEN AddStep(j, parsed, t) ELSE VisualCallback(j, parsed, t)

\* a line that does not parse taken for a failure of the job
OnLineMut(j, stage, line, t) ==
  IF JsonParse(line) = <<>>
  THEN [j EXCEPT !.status = "error", !.error = <<"e1">>]
  ELSE OnProgress(j, stage, JsonParse(line)[1], t)

\* line 109: try { onProgress(JSON.parse(line)); } catch {}
OnLine(j, stage, line, t) ==
  IF JsonParse(line) = <<>> THEN j
  ELSE OnProgress(j, stage, JsonParse(line)[1], t)

RECURSIVE OnLines(_, _, _, _)
\* lines 108-110: for (const line of lines)
OnLines(j, stage, lines, t) ==
  IF lines = <<>> THEN j
  ELSE OnLines(OnLine(j, stage, Head(lines), t), stage, Tail(lines), t)

\* lines 106-111: the handler of a data chunk of the running stage
StageData(r, chunk, dt) ==
  /\ r \in Refs
  /\ pipe[r] \in {"stage1", "stage2"}
  /\ DateNow(dt) <= MaxClock
  /\ LET j == OnLines(heap[r], IF pipe[r] = "stage1" THEN 1 ELSE 2,
                      Lines(chunk), DateNow(dt))
     IN /\ Len(j.steps) <= MaxSteps
        /\ heap' = [heap EXCEPT ![r] = j]
        /\ now' = IF j.steps # heap[r].steps THEN DateNow(dt) ELSE now
  /\ UNCHANGED <<jobs, jobQueue, isWorkerRunning, immediates, pipe, disk,
                 putCalls, startOrder, offContract, liveIds, jobKeys>>

\* ------------------------------------------- processJob: the continuations
AudioFailMsg(code) ==
  <<"Processamento de audio falhou (codigo ", ToString(code), ")">>
VisualFailMsg(code) ==
  <<"Perturbacao visual falhou (codigo ", ToString(code), ")">>
NotFoundMsg == <<"Arquivo de saida nao encontrado">>
StorageFailMsg(err) == <<"Erro ao enviar para S3: ", err>>

\* lines 154-158, 186-190, 227-231: set the error unless one is set
StageFailed(j, msg) ==
  IF j.status # "error"
  THEN [j EXCEPT !.status = "error", !.error = msg]
  ELSE j

\* an upload that leaves the input file when the artifact cannot be read
DoUploadMut(j, d, readOk, okIn) ==
  IF FinalOutputPathOf(j) \in d
  THEN IF readOk
       THEN [job |-> [j EXCEPT !.progress = UploadProgress],
             disk |-> d, pc |-> "put"]
       ELSE [job |-> [j EXCEPT !.progress = UploadProgress,
                               !.status = "error",
                               !.error = StorageFailMsg(ReadError)],
             disk |-> d, pc |-> "done"]
  ELSE [job |-> StageFailed(j, NotFoundMsg),
        disk |-> Unlink(d, j.inputPath, okIn), pc |-> "done"]

\* lines 199-238 up to the await of storagePut
DoUpload(j, d, readOk, okIn) ==
  IF FinalOutputPathOf(j) \in d
  THEN IF readOk
       THEN [job |-> [j EXCEPT !.progress = UploadProgress],
             disk |-> d, pc |-> "put"]
       ELSE [job |-> [j EXCEPT !.progress = UploadProgress,
                               !.status = "error",
                               !.error = StorageFailMsg(ReadError)],
             disk |-> Unlink(d, j.inputPath, okIn), pc |-> "done"]
  ELSE [job |-> StageFailed(j, NotFoundMsg),
        disk |-> Unlink(d, j.inputPath, okIn), pc |-> "done"]

\* the audio stage judged by its exit code alone
AfterAudioMut(j, d, code, spawnOk, readOk, okIn) ==
  IF code # 0
  THEN [job |-> StageFailed(j, AudioFailMsg(code)),
        disk |-> Unlink(d, j.inputPath, okIn), pc |-> "done"]
  ELSE IF j.visualPerturb
  THEN [job |-> j, disk |-> d,
        pc |-> IF spawnOk THEN "stage2" ELSE "spawnerr2"]
  ELSE DoUpload(j, d, readOk, okIn)

\* lines 153-164 and 196: after the audio stage has resolved with code
AfterAudio(j, d, code, spawnOk, readOk, okIn) ==
  IF code # 0 \/ OutputPathOf(j) \notin d
  THEN [job |-> StageFailed(j, AudioFailMsg(code)),
        disk |-> Unlink(d, j.inputPath, okIn), pc |-> "done"]
  ELSE IF j.visualPerturb
  THEN [job |-> j, disk |-> d,
        pc |-> IF spawnOk THEN "stage2" ELSE "spawnerr2"]
  ELSE DoUpload(j, d, readOk, okIn)

\* the visual stage that drops the intermediate file only when it succeeded
AfterVisualMut(j, d, code, readOk, okMid, okIn) ==
  IF code # 0 \/ VisualOutputPathOf(j) \notin d
  THEN [job |-> StageFailed(j, VisualFailMsg(code)),
        disk |-> Unlink(d, j.inputPath, okIn), pc |-> "done"]
  ELSE DoUpload(j, Unlink(d, OutputPathOf(j), okMid), readOk, okIn)

\* lines 182-196: after the visual stage has resolved with code
AfterVisual(j, d, code, readOk, okMid, okIn) ==
  LET d1 == Unlink(d, OutputPathOf(j), okMid)
  IN IF code # 0 \/ VisualOutputPathOf(j) \notin d1
     THEN [job |-> StageFailed(j, VisualFailMsg(code)),
           disk |-> Unlink(d1, j.inputPath, okIn), pc |-> "done"]
     ELSE DoUpload(j, d1, readOk, okIn)

\* a pipeline whose failure escapes to the worker: runWorker ends on the
\* fault and never clears its flag
ContinueMut(r, res, spawnOk) ==
  LET h == [heap EXCEPT ![r] = res.job]
      p == [pipe EXCEPT ![r] = res.pc]
  IN /\ putCalls' = [putCalls EXCEPT ![r] = IF res.pc = "put" THEN @ + 1
                                                               ELSE @]
     /\ IF res.pc = "done" /\ res.job.status # "error"
        THEN WorkerLoop(h, p, res.disk, isWorkerRunning, spawnOk)
        ELSE /\ heap' = h
             /\ pipe' = p
             /\ disk' = res.disk
             /\ UNCHANGED <<jobQueue, isWorkerRunning, startOrder>>

\* The pipeline of r goes on from res: it suspends again, or it returns and
\* the worker that awaits it resumes its loop.
Continue(r, res, spawnOk) ==
  LET h == [heap EXCEPT ![r] = res.job]
      p == [pipe EXCEPT ![r] = res.pc]
  IN /\ putCalls' = [putCalls EXCEPT ![r] = IF res.pc = "put" THEN @ + 1
                                                               ELSE @]
     /\ IF res.pc = "done"
        THEN WorkerLoop(h, p, res.disk, isWorkerRunning, spawnOk)
        ELSE /\ heap' = h
             /\ pipe' = p
             /\ disk' = res.disk
             /\ UNCHANGED <<jobQueue, isWorkerRunning, startOrder>>

\* runPythonScript resolves: python.on("close", resolve) with the exit code
\* (line 115) or python.on("error", () => resolve(1)) (line 116)
StageResolved(r, stage, code, produced, spawnOk, readOk, okMid, okIn) ==
  LET j == heap[r]
      out == IF stage = 1 THEN OutputPathOf(j) ELSE VisualOutputPathOf(j)
      d == IF produced THEN disk \cup {out} ELSE disk
      res == IF stage = 1
             THEN AfterAudio(j, d, code, spawnOk, readOk, okIn)
             ELSE AfterVisual(j, d, code, readOk, okMid, okIn)
  IN /\ Continue(r, res, spawnOk)
     /\ UNCHANGED <<jobs, immediates, now, offContract, liveIds,
                 jobKeys>>

StageExit(r, code, produced, spawnOk, readOk, okMid, okIn) ==
  /\ r \in Refs
  /\ pipe[r] \in {"stage1", "stage2"}
  /\ StageResolved(r, IF pipe[r] = "stage1" THEN 1 ELSE 2, code, produced,
                   spawnOk, readOk, okMid, okIn)

\* a spawn failure that resolves with the exit code of a success
SpawnErrorMut(r, spawnOk, readOk, okMid, okIn) ==
  /\ r \in Refs
  /\ pipe[r] \in {"spawnerr1", "spawnerr2"}
  /\ LET stage == IF pipe[r] = "spawnerr1" THEN 1 ELSE 2
         j == heap[r]
         res == IF stage = 1
                THEN AfterAudio(j, disk \cup {OutputPathOf(j)}, 0, spawnOk,
                                readOk, okIn)
                ELSE AfterVisual(j, disk \cup {VisualOutputPathOf(j)}, 0,
                                 readOk, okMid, okIn)
     IN Continue(r, res, spawnOk)
  /\ UNCHANGED <<jobs, immediates, now, offContract, liveIds, jobKeys>>

\* line 114: python.on("error", () => resolve(1)); the process wrote nothing
SpawnError(r, spawnOk, readOk, okMid, okIn) ==
  /\ r \in Refs
  /\ pipe[r] \in {"spawnerr1", "spawnerr2"}
  /\ StageResolved(r, IF pipe[r] = "spawnerr1" THEN 1 ELSE 2,
                   SpawnErrorCode, FALSE, spawnOk, readOk, okMid, okIn)

\* the completion that leaves the progress where the upload put it
CompletedMut(j, url, t1, t2) ==
  [j EXCEPT !.downloadUrl = url, !.status = "completed",
            !.completedAt = t1, !.expiresAt = t2 + RetentionMs]

\* lines 213-221 and 233-238: storagePut resolved with { url }
Completed(j, url, t1, t2) ==
  [j EXCEPT !.downloadUrl = url, !.status = "completed",
            !.progress = DoneProgress, !.completedAt = t1,
            !.expiresAt = t2 + RetentionMs]

\* a success path whose unlink of the final artifact is not guarded: its
\* failure is caught with the failures of the put
PutResolveMut(r, url, dt1, dt2, spawnOk, okFinal, okIn) ==
  /\ r \in Refs
  /\ pipe[r] = "put"
  /\ DateNow(dt1) + dt2 <= MaxClock
  /\ now' = DateNow(dt1) + dt2
  /\ LET c == Completed(heap[r], url, DateNow(dt1), DateNow(dt1) + dt2)
         j == IF okFinal THEN c
              ELSE [c EXCEPT !.status = "error",
                             !.error = StorageFailMsg(ReadError)]
         d1 == Unlink(disk, FinalOutputPathOf(j), okFinal)
         d2 == Unlink(d1, j.inputPath, okIn)
     IN Continue(r, [job |-> j, disk |-> d2, pc |-> "done"], spawnOk)
  /\ UNCHANGED <<jobs, immediates, offContract, liveIds,
                 jobKeys>>

\* lines 211-221 and 233-238: the await of storagePut resumes with { url }
PutResolve(r, url, dt1, dt2, spawnOk, okFinal, okIn) ==
  /\ r \in Refs
  /\ pipe[r] = "put"
  /\ DateNow(dt1) + dt2 <= MaxClock
  /\ now' = DateNow(dt1) + dt2
  /\ LET j == Completed(heap[r], url, DateNow(dt1), DateNow(dt1) + dt2)
         d1 == Unlink(disk, FinalOutputPathOf(j), okFinal)
         d2 == Unlink(d1, j.inputPath, okIn)
     IN Continue(r, [job |-> j, disk |-> d2, pc |-> "done"], spawnOk)
  /\ UNCHANGED <<jobs, immediates, offContract, liveIds,
                 jobKeys>>

\* the rejection handled with the cleanup of the success path
PutRejectMut(r, err, spawnOk, okIn) ==
  /\ r \in Refs
  /\ pipe[r] = "put"
  /\ LET j == [heap[r] EXCEPT !.status = "error",
                              !.error = StorageFailMsg(err)]
         d1 == Unlink(disk, FinalOutputPathOf(j), TRUE)
     IN Continue(r, [job |-> j,
                     disk |-> Unlink(d1, j.inputPath, okIn),
                     pc |-> "done"], spawnOk)
  /\ UNCHANGED <<jobs, immediates, now, offContract, liveIds,
                 jobKeys>>

\* lines 222-226 and 233-238: storagePut rejected with err
PutReject(r, err, spawnOk, okIn) ==
  /\ r \in Refs
  /\ pipe[r] = "put"
  /\ LET j == [heap[r] EXCEPT !.status = "error",
                              !.error = StorageFailMsg(err)]
     IN Continue(r, [job |-> j,
                     disk |-> Unlink(disk, j.inputPath, okIn),
                     pc |-> "done"], spawnOk)
  /\ UNCHANGED <<jobs, immediates, now, offContract, liveIds,
                 jobKeys>>

\* ------------------------------------------------------ the environment
\* What the callers, the stage programs, the file system, the clock and the
\* storage may do.  An environment E fixes the sets the inputs are drawn
\* from; the actions themselves are the same under every environment.
\* What the environment has done to a job's pipeline so far, kept by an
\* environment that records (E.trace): the step events as the stages
\* printed them, the error messages the running stage has printed, the
\* outcome of every stage that has ended and the outcome of the storage
\* put; and the statuses the job has gone through.
NoHist ==
  [emitted |-> <<>>, signalled |-> {}, exits |-> <<>>, put |-> <<>>,
   statuses |-> <<"queued">>, written |-> <<>>, forwarded |-> <<>>]

\* h with the status every job has after the step
StatusesRecorded(h) ==
  [r \in 1..Len(h) |->
     [h[r] EXCEPT !.statuses =
        IF heap'[r].status # @[Len(@)] THEN Append(@, heap'[r].status)
                                       ELSE @]]

Recorded(E, h) == hist' = IF E.trace THEN StatusesRecorded(h) ELSE hist

EventRecorded(r, parsed) ==
  [hist EXCEPT ![r] =
     IF parsed.error # NoError
     THEN [@ EXCEPT !.signalled = @ \cup {parsed.error}]
     ELSE IF parsed.step # NoStr
     THEN [@ EXCEPT !.emitted =
             Append(@, [stage |-> IF pipe[r] = "stage1" THEN 1 ELSE 2,
                        event |-> parsed])]
     ELSE @]

\* the visual stage handed the uploaded file instead of the audio output
StageArgsMut(j, stage) ==
  IF stage = 1 THEN <<j.inputPath, OutputPathOf(j)>>
               ELSE <<j.inputPath, VisualOutputPathOf(j)>>

\* lines 151 and 169: the input and output paths a stage is spawned with
StageArgs(j, stage) ==
  IF stage = 1 THEN <<j.inputPath, OutputPathOf(j)>>
               ELSE <<OutputPathOf(j), VisualOutputPathOf(j)>>

ExitRecorded(r, code, produced) ==
  LET stage == IF pipe[r] \in {"stage1", "spawnerr1"} THEN 1 ELSE 2
      out == IF stage = 1 THEN OutputPathOf(heap[r])
                          ELSE VisualOutputPathOf(heap[r])
  IN [hist EXCEPT ![r] =
        [@ EXCEPT !.exits = Append(@, [stage |-> stage, code |-> code,
                                       args |-> StageArgs(heap[r], stage),
                                       present |-> produced \/ out \in disk,
                                       signalled |-> hist[r].signalled]),
                  !.signalled = {}]]

NextEnv(E) ==
  \/ \E id \in E.ids, n \in Names, p \in InputPaths, vp \in E.visual,
        dt \in E.dts :
       /\ Len(heap) < E.maxJobs
       /\ E.uniqueIds => jobs[id] = NoJob
       /\ CreateJob(id, n, p, vp, dt)
       /\ Recorded(E, Append(hist, NoHist))
  \/ \E id \in E.ids, okIn \in E.unlinkOk, okOut \in E.unlinkOk :
       DeleteJob(id, okIn, okOut) /\ UNCHANGED hist
  \/ \E spawnOk \in E.spawnOk : RunWorker(spawnOk) /\ Recorded(E, hist)
  \/ \E r \in 1..MaxJobs, e \in E.events, dt \in E.dts :
       StageEvent(r, e, dt) /\ Recorded(E, EventRecorded(r, e))
  \/ \E r \in 1..MaxJobs, code \in E.codes, produced \in E.produced,
        spawnOk \in E.spawnOk, readOk \in E.readOk, okMid \in E.unlinkOk,
        okIn \in E.unlinkOk :
       /\ StageExit(r, code, produced, spawnOk, readOk, okMid, okIn)
       /\ Recorded(E, ExitRecorded(r, code, produced))
  \/ \E r \in 1..MaxJobs, spawnOk \in E.spawnOk, readOk \in E.readOk,
        okMid \in E.unlinkOk, okIn \in E.unlinkOk :
       /\ SpawnError(r, spawnOk, readOk, okMid, okIn)
       /\ Recorded(E, ExitRecorded(r, SpawnErrorCode, FALSE))
  \/ \E r \in 1..MaxJobs, dt1 \in E.dts, dt2 \in E.dts, spawnOk \in E.spawnOk,
        okFinal \in E.unlinkOk, okIn \in E.unlinkOk :
       /\ PutResolve(r, Url, dt1, dt2, spawnOk, okFinal, okIn)
       /\ Recorded(E, [hist EXCEPT ![r].put = <<"resolved", Url>>])
  \/ \E r \in 1..MaxJobs, err \in PutErrors, spawnOk \in E.spawnOk,
        okIn \in E.unlinkOk :
       /\ PutReject(r, err, spawnOk, okIn)
       /\ Recorded(E, [hist EXCEPT ![r].put = <<"rejected", err>>])

\* One job through the whole pipeline: every event, exit code, artifact,
\* clock and storage outcome; the job may be deleted at any point.
PipeEnv ==
  [ids |-> {"a"}, uniqueIds |-> FALSE, visual |-> BOOLEAN, maxJobs |-> 1,
   events |-> Events, codes |-> ExitCodes, produced |-> BOOLEAN,
   spawnOk |-> BOOLEAN, readOk |-> BOOLEAN, unlinkOk |-> {TRUE},
   dts |-> {0, 1}, trace |-> FALSE]

\* The same job with its pipeline's history recorded; the clock stands
\* still and the stages keep to percents of 0..100.
TraceEnv ==
  [PipeEnv EXCEPT !.dts = {0}, !.trace = TRUE,
                  !.events = ErrorEvents \cup
                    [step : {"extract"}, percent : TracePercents,
                     message : {"msg"}, error : {NoError}]]

\* Several jobs, two ids, created and deleted at any point, with the
\* pipeline reduced to its outcomes.
QueueEnv ==
  [ids |-> Ids, uniqueIds |-> FALSE, visual |-> {FALSE}, maxJobs |-> MaxJobs,
   events |-> {e \in ErrorEvents : e.error = <<"e1">>}, codes |-> ExitCodes,
   produced |-> {TRUE}, spawnOk |-> BOOLEAN, readOk |-> {TRUE},
   unlinkOk |-> {TRUE}, dts |-> {0}, trace |-> FALSE]

\* The same, with callers that never create an id the registry holds.
UniqueEnv == [QueueEnv EXCEPT !.uniqueIds = TRUE]

Next == NextEnv(PipeEnv)
NextQueue == NextEnv(QueueEnv)
NextUnique == NextEnv(UniqueEnv)
NextTrace == NextEnv(TraceEnv)

Spec == Init /\ [][Next]_vars
SpecQueue == Init /\ [][NextQueue]_vars
SpecUnique == Init /\ [][NextUnique]_vars
SpecTrace == Init /\ [][NextTrace]_vars

\* The job of TraceEnv on a file system where any unlink may fail; the
\* stages print one error event and one progress event.
UnlinkEnv ==
  [TraceEnv EXCEPT !.unlinkOk = BOOLEAN,
                   !.events = {e \in TraceEnv.events :
                                 e.error = <<"e1">> \/ e.percent = 40}]
NextUnlink == NextEnv(UnlinkEnv)
SpecUnlink == Init /\ [][NextUnlink]_vars

\* The stdout of the stages in data chunks.  The environment records what
\* the stages have written so far (written) and the values that were handed
\* to the callback (forwarded).
RECURSIVE Parsed(_)
Parsed(lines) ==
  IF lines = <<>> THEN <<>>
  ELSE JsonParse(Head(lines)) \o Parsed(Tail(lines))

DataRecorded(r, chunk) ==
  [hist EXCEPT ![r] = [@ EXCEPT !.written = @ \o chunk,
                                !.forwarded = @ \o Parsed(Lines(chunk))]]

NextStdout ==
  \/ \E n \in Names, p \in InputPaths, vp \in BOOLEAN :
       /\ Len(heap) < 1
       /\ CreateJob("a", n, p, vp, 0)
       /\ Recorded(TraceEnv, Append(hist, NoHist))
  \/ RunWorker(TRUE) /\ Recorded(TraceEnv, hist)
  \/ \E r \in 1..MaxJobs, chunk \in Chunks :
       /\ r \in Refs
       /\ Len(hist[r].written) + Len(chunk) <= MaxStream
       /\ StageData(r, chunk, 0)
       /\ Recorded(TraceEnv, DataRecorded(r, chunk))
  \/ \E r \in 1..MaxJobs :
       /\ StageExit(r, 0, TRUE, TRUE, TRUE, TRUE, TRUE)
       /\ Recorded(TraceEnv, ExitRecorded(r, 0, TRUE))
  \/ \E r \in 1..MaxJobs :
       /\ PutResolve(r, Url, 0, 0, TRUE, TRUE, TRUE)
       /\ Recorded(TraceEnv, [hist EXCEPT ![r].put = <<"resolved", Url>>])

SpecStdout == Init /\ [][NextStdout]_vars

\* The event loop runs every scheduled callback, every stage process
\* terminates (or fails to spawn) and every storage put returns.
WorkerRuns ==
  /\ \E spawnOk \in QueueEnv.spawnOk : RunWorker(spawnOk)
  /\ UNCHANGED hist
StageEnds ==
  /\ \/ \E r \in 1..MaxJobs, code \in QueueEnv.codes,
           produced \in QueueEnv.produced, spawnOk \in QueueEnv.spawnOk,
           readOk \in QueueEnv.readOk, okMid \in QueueEnv.unlinkOk,
           okIn \in QueueEnv.unlinkOk :
          StageExit(r, code, produced, spawnOk, readOk, okMid, okIn)
     \/ \E r \in 1..MaxJobs, spawnOk \in QueueEnv.spawnOk,
           readOk \in QueueEnv.readOk, okMid \in QueueEnv.unlinkOk,
           okIn \in QueueEnv.unlinkOk :
          SpawnError(r, spawnOk, readOk, okMid, okIn)
  /\ UNCHANGED hist
PutReturns ==
  /\ \/ \E r \in 1..MaxJobs, dt1 \in QueueEnv.dts, dt2 \in QueueEnv.dts,
           spawnOk \in QueueEnv.spawnOk, okFinal \in QueueEnv.unlinkOk,
           okIn \in QueueEnv.unlinkOk :
          PutResolve(r, Url, dt1, dt2, spawnOk, okFinal, okIn)
     \/ \E r \in 1..MaxJobs, err \in PutErrors, spawnOk \in QueueEnv.spawnOk,
           okIn \in QueueEnv.unlinkOk :
          PutReject(r, err, spawnOk, okIn)
  /\ UNCHANGED hist

LiveEnv == [QueueEnv EXCEPT !.maxJobs = MaxLiveJobs]
NextLive == NextEnv(LiveEnv)

\* The same with a clock that may advance between two reads, so that jobs
\* differ in their createdAt.
ListEnv == [LiveEnv EXCEPT !.dts = {0, 1}]
NextList == NextEnv(ListEnv)
SpecList == Init /\ [][NextList]_vars

\* Two jobs, with and without the visual stage; a stage that spawns exits 0
\* with its output.
SpawnEnv == [LiveEnv EXCEPT !.visual = BOOLEAN, !.codes = {0}]
NextSpawn == NextEnv(SpawnEnv)
SpecSpawn == Init /\ [][NextSpawn]_vars

\* Two jobs whose stages print a progress event and exit 0 when they spawn.
SettledEnv ==
  [LiveEnv EXCEPT !.codes = {0},
                  !.events = {e \in TraceEnv.events : e.percent = 40}]
NextSettled == NextEnv(SettledEnv)
SpecSettled == Init /\ [][NextSettled]_vars

SpecLive ==
  /\ Init /\ [][NextLive]_vars
  /\ WF_vars(WorkerRuns)
  /\ WF_vars(StageEnds)
  /\ WF_vars(PutReturns)

\* ============================================================= properties
InRegistry(r) == jobs[heap[r].id] = r
InFlight == {r \in Refs : pipe[r] \notin {"idle", "done"}}
Terminal(r) == heap[r].status \in {"completed", "error"}

\* C1: once a job's status is error, no later step sets it to a non-error
\* status.
C1_ErrorIsTerminal ==
  [][\A r \in Refs :
       heap[r].status = "error" => heap'[r].status = "error"]_vars

\* C2: a job's error field is set if and only if its status is error, and
\* once the error field is set its value never changes.
C2_ErrorIffStatusAndStable ==
  /\ [](\A r \in Refs :
          (heap[r].error # NoError) <=> (heap[r].status = "error"))
  /\ [][\A r \in Refs :
          heap[r].error # NoError => heap'[r].error = heap[r].error]_vars

\* C3: at most one pipeline is in flight at any time and only under the
\* running flag; the worker takes an id off the queue only when no pipeline
\* is in flight or the one in flight returns in that very step.
C3_OnePipelineAtATime ==
  /\ [](Cardinality(InFlight) <= 1 /\ (InFlight # {} => isWorkerRunning))
  /\ [][Len(jobQueue') < Len(jobQueue) =>
          \A r \in InFlight : pipe'[r] = "done"]_vars

\* C3 witness: a pipeline suspended on the storage put whose job has been
\* deleted, while a later create has queued another job and a second start
\* of the worker is still scheduled.
C3_Witness ==
  \E r \in Refs :
    /\ pipe[r] = "put"
    /\ ~InRegistry(r)
    /\ jobQueue # <<>>
    /\ immediates > 0
    /\ Len(heap) > r

\* C4: pipelines start in creation order (references are handed out in
\* creation order), each after the pipelines started before it have
\* returned.
C4_CreationOrder ==
  /\ \A i, k \in 1..Len(startOrder) :
       i < k => startOrder[i] < startOrder[k]
  /\ \A i \in 1..Len(startOrder) :
       i < Len(startOrder) => pipe[startOrder[i]] = "done"

\* C5: every job's progress lies in 0..100, whatever percent the stages
\* emit.
C5_ProgressInRange ==
  \A r \in Refs : heap[r].progress >= 0 /\ heap[r].progress <= 100

\* C5 as amended: every job whose stages emitted only percents of 0..100
\* has its progress in 0..100.
C5_ProgressInRangeUnderContract ==
  \A r \in Refs :
    r \notin offContract => heap[r].progress >= 0 /\ heap[r].progress <= 100

\* C5 witness: a completed two-stage job within the contract whose steps
\* hold a mandatory-stage percent of 100 and a remapped percent of 95.
C5_Witness ==
  \E r \in Refs :
    /\ r \notin offContract
    /\ heap[r].visualPerturb
    /\ heap[r].status = "completed"
    /\ heap[r].progress = 100
    /\ Len(heap[r].steps) = 2
    /\ heap[r].steps[1].percent = 100
    /\ heap[r].steps[2].percent = 95

\* C6: no update decreases a job's progress.
C6_ProgressMonotone ==
  [][\A r \in Refs : heap'[r].progress >= heap[r].progress]_vars

\* C7: completedAt, expiresAt and downloadUrl are all set if and only if
\* the status is completed, and then expiresAt = completedAt + 24 h.
C7_CompletionFields ==
  \A r \in Refs :
    LET j == heap[r]
        done == j.status = "completed"
    IN /\ (j.completedAt # Undef) <=> done
       /\ (j.expiresAt # Undef) <=> done
       /\ (j.downloadUrl # NoStr) <=> done
       /\ done => j.expiresAt = j.completedAt + RetentionMs

\* C8: a job's steps sequence only grows at its end: its length never
\* decreases and every entry keeps its position and its four values.
C8_StepsAppendOnly ==
  [][\A r \in Refs :
       /\ Len(heap'[r].steps) >= Len(heap[r].steps)
       /\ \A i \in 1..Len(heap[r].steps) :
            heap'[r].steps[i] = heap[r].steps[i]]_vars

\* C8 witness: a finished two-stage job with two step records, the first
\* from the mandatory stage and the second remapped, taken at two instants.
C8_Witness ==
  \E r \in Refs :
    /\ pipe[r] = "done"
    /\ Len(heap[r].steps) = 2
    /\ heap[r].steps[1].percent = 40
    /\ heap[r].steps[2].percent = 68
    /\ heap[r].steps[1].timestamp < heap[r].steps[2].timestamp
C10_DequeueCheck ==
  /\ [][startOrder' # startOrder =>
          LET r == startOrder'[Len(startOrder')]
          IN /\ startOrder' = Append(startOrder, r)
             /\ InRegistry(r)
             /\ heap[r].status = "queued"
             /\ pipe[r] = "idle"]_vars
  /\ [][\A r \in Refs :
          (~InRegistry(r) /\ heap[r].status = "queued") =>
            (~InRegistry(r))' /\ heap'[r].status = "queued"
             /\ pipe'[r] = "idle"]_vars
  /\ [][Len(jobQueue') < Len(jobQueue) =>
          jobQueue' = <<>> \/ startOrder' # startOrder]_vars

\* C10 witness: a job deleted while queued is still queued and idle, and the
\* job created after it under another id has been taken off the queue behind
\* it and started.
C10_Witness ==
  \E r, q \in Refs :
    /\ r < q
    /\ heap[r].id # heap[q].id
    /\ jobs[heap[r].id] = NoJob
    /\ heap[r].status = "queued"
    /\ pipe[r] = "idle"
    /\ startOrder = <<q>>

C12_DeleteEffect ==
  [][\A id \in Ids :
       /\ (jobs[id] # NoJob /\ jobs'[id] = NoJob) =>
            LET j == heap[jobs[id]]
            IN /\ GetJob(id)' = NoJob
               /\ jobs[id] \notin JobsValues'
               /\ j.inputPath \notin disk'
               /\ j.outputPath # <<>> => j.outputPath \notin disk'
               /\ heap' = heap
               /\ \A o \in Ids \ {id} : jobs'[o] = jobs[o]
       /\ (jobs[id] = NoJob /\ \E okIn, okOut \in BOOLEAN :
                                 DeleteJob(id, okIn, okOut)) =>
            UNCHANGED vars]_vars

\* C12 witness: a job deleted while its pipeline waits for the storage put,
\* its output file gone from the disk, with another job still registered.
C12_Witness ==
  \E r, q \in Refs :
    /\ r # q
    /\ pipe[r] = "put"
    /\ GetJob(heap[r].id) = NoJob
    /\ heap[r].outputPath \notin disk
    /\ InRegistry(q)

\* The pipeline of r has been handed nothing but successes: every stage
\* that ended exited 0 with its output present and printed no error event,
\* and the storage put resolved.
Happy(r) ==
  /\ hist[r].put = <<"resolved", Url>>
  /\ hist[r].signalled = {}
  /\ \A i \in 1..Len(hist[r].exits) :
       LET x == hist[r].exits[i]
       IN x.code = 0 /\ x.present /\ x.signalled = {}

\* C13: a job whose stages all exited 0 with their output present, without
\* an error event, and whose storage put succeeded, has gone through the
\* statuses queued, processing, completed and no other, and has progress
\* 100 and the URL returned by the put as its downloadUrl.
C13_HappyPath ==
  \A r \in Refs :
    Happy(r) =>
      /\ hist[r].statuses = <<"queued", "processing", "completed">>
      /\ heap[r].progress = 100
      /\ heap[r].downloadUrl = Url

\* C13 witness: a two-stage job, both stages ended and both printed a
\* progress event, that went through the happy path.
C13_Witness ==
  \E r \in Refs :
    /\ Happy(r)
    /\ heap[r].visualPerturb
    /\ Len(hist[r].exits) = 2
    /\ Len(hist[r].emitted) = 2
    /\ hist[r].emitted[1].stage = 1
    /\ hist[r].emitted[2].stage = 2

\* The stage whose outcome is x failed: non-zero exit or output absent.
Failed(x) == x.code # 0 \/ ~x.present

\* C14: a job whose mandatory stage exited non-zero or left no output, and
\* printed no error event, has status error and the audio failure message
\* with that exit code in it; its input file is off the disk, the optional
\* stage has not been started and the storage put has not been called.
C14_MandatoryStageFailure ==
  \A r \in Refs :
    (/\ hist[r].exits # <<>>
     /\ Failed(hist[r].exits[1])
     /\ hist[r].exits[1].signalled = {}) =>
      /\ heap[r].status = "error"
      /\ heap[r].error = AudioFailMsg(hist[r].exits[1].code)
      /\ heap[r].error[2] = ToString(hist[r].exits[1].code)
      /\ heap[r].inputPath \notin disk
      /\ Len(hist[r].exits) = 1
      /\ pipe[r] = "done"
      /\ putCalls[r] = 0
      /\ hist[r].put = <<>>

\* C14 witness: a job that asked for the visual stage and whose audio stage
\* exited 0 without an output and without an error event.
C14_Witness ==
  \E r \in Refs :
    /\ heap[r].visualPerturb
    /\ hist[r].exits # <<>>
    /\ hist[r].exits[1].code = 0
    /\ ~hist[r].exits[1].present
    /\ hist[r].exits[1].signalled = {}
    /\ heap[r].error = AudioFailMsg(0)

\* C15: a job one of whose stages printed an error event with message m and
\* then failed, and whose pipeline has returned, has status error and m as
\* its error.
C15_ProtocolErrorVerbatim ==
  \A r \in Refs :
    \A i \in 1..Len(hist[r].exits) :
      (pipe[r] = "done" /\ Failed(hist[r].exits[i])) =>
        \A m \in hist[r].exits[i].signalled :
          heap[r].status = "error" /\ heap[r].error = m

\* C16: once the visual stage of a job has ended, the _processed file of
\* the job is off the disk; and if the visual stage exited non-zero or left
\* no _final file, the job has status error, its pipeline has returned and
\* the storage put has not been called for it.
C16_OptionalStageEnd ==
  \A r \in Refs :
    \A i \in 1..Len(hist[r].exits) :
      hist[r].exits[i].stage = 2 =>
        /\ OutputPathOf(heap[r]) \notin disk
        /\ Failed(hist[r].exits[i]) =>
             /\ heap[r].status = "error"
             /\ pipe[r] = "done"
             /\ putCalls[r] = 0
             /\ hist[r].put = <<>>

\* C16 witness: a job whose audio stage left its output and whose visual
\* stage then exited with code 2, ending with the visual failure message.
C16_Witness ==
  \E r \in Refs :
    /\ Len(hist[r].exits) = 2
    /\ hist[r].exits[1].present
    /\ hist[r].exits[2].stage = 2
    /\ hist[r].exits[2].code = 2
    /\ heap[r].error = VisualFailMsg(2)
    /\ OutputPathOf(heap[r]) \notin disk

\* C17: the storage put is called at most once for a job; and a job whose
\* put was rejected has status error and an error message that holds the
\* cause of the rejection, its pipeline has returned, and its final file is
\* still on the disk unless the job has been deleted.
C17_StorageFailure ==
  \A r \in Refs :
    /\ putCalls[r] <= 1
    /\ (hist[r].put # <<>> /\ hist[r].put[1] = "rejected") =>
         /\ heap[r].status = "error"
         /\ heap[r].error = StorageFailMsg(hist[r].put[2])
         /\ heap[r].error[2] = hist[r].put[2]
         /\ pipe[r] = "done"
         /\ putCalls[r] = 1
         /\ InRegistry(r) => FinalOutputPathOf(heap[r]) \in disk

\* C17 witness: a two-stage job still in the registry whose put was
\* rejected: the input file is gone and the _final file is on the disk.
C17_Witness ==
  \E r \in Refs :
    /\ hist[r].put = <<"rejected", "Error: storage unavailable">>
    /\ InRegistry(r)
    /\ heap[r].visualPerturb
    /\ heap[r].inputPath \notin disk
    /\ VisualOutputPathOf(heap[r]) \in disk

\* 0.45 * p rounded to the nearest integer, halves up: the n with
\* n - 1/2 < 9p/20 <= n + 1/2
Round45(p) == CHOOSE n \in 0..45 : 9 * p - 10 < 20 * n /\ 20 * n <= 9 * p + 10

\* C18: every step record made from a visual-stage progress event with a
\* native percent p of 0..100 has the percent 50 + round(0.45 p), which is
\* 68 for 40, 50 for 0 and 95 for 100 and lies in 50..95, and has the step
\* and the message of the event; and the job's progress has that value
\* as long as the event is the last one of the running visual stage.
C18_RemappedProgress ==
  \A r \in Refs :
    /\ Len(heap[r].steps) = Len(hist[r].emitted)
    /\ \A i \in 1..Len(hist[r].emitted) :
         LET e == hist[r].emitted[i].event
             s == heap[r].steps[i]
         IN (hist[r].emitted[i].stage = 2 /\ e.percent \in 0..100) =>
              /\ s.percent = 50 + Round45(e.percent)
              /\ e.percent = 40 => s.percent = 68
              /\ e.percent = 0 => s.percent = 50
              /\ e.percent = 100 => s.percent = 95
              /\ s.percent >= 50 /\ s.percent <= 95
              /\ s.step = e.step
              /\ s.message = e.message
              /\ (i = Len(hist[r].emitted) /\ pipe[r] = "stage2") =>
                   heap[r].progress = s.percent

\* C18 witness: the running visual stage of a job has printed the native
\* percents 10 and 100, recorded as 55 and 95, and the progress is 95.
C18_Witness ==
  \E r \in Refs :
    /\ pipe[r] = "stage2"
    /\ Len(hist[r].emitted) = 2
    /\ hist[r].emitted[1].stage = 2
    /\ hist[r].emitted[1].event.percent = 10
    /\ hist[r].emitted[2].event.percent = 100
    /\ heap[r].steps[1].percent = 55
    /\ heap[r].steps[2].percent = 95
    /\ heap[r].progress = 95

\* C19: a create under an id the registry does not hold appends one job
\* record with status queued, progress 0, no steps, the time of the call as
\* createdAt and the id, originalName and inputPath it was given, and
\* changes no other record; the registry holds the new job under the id
\* and nothing else of it changes; the id is appended to the admission
\* queue; one start of the worker is scheduled unless a worker is running;
\* and the call returns the new job.
C19_CreateEffect ==
  [][\A id \in Ids, n \in Names, p \in InputPaths, vp \in BOOLEAN,
        dt \in 0..MaxClock :
       (jobs[id] = NoJob /\ CreateJob(id, n, p, vp, dt)) =>
         LET r == CreateJobReturn
             j == heap'[r]
         IN /\ r = Len(heap')
            /\ heap' = Append(heap, j)
            /\ j.status = "queued"
            /\ j.progress = 0
            /\ j.steps = <<>>
            /\ j.createdAt = now + dt
            /\ j.createdAt = now'
            /\ j.id = id
            /\ j.originalName = n
            /\ j.inputPath = p
            /\ GetJob(id)' = r
            /\ \A o \in Ids \ {id} : GetJob(o)' = GetJob(o)
            /\ jobQueue' = Append(jobQueue, id)
            /\ immediates' = IF isWorkerRunning THEN immediates
                                                ELSE immediates + 1
            /\ isWorkerRunning' = isWorkerRunning]_vars

\* C19 witness: a job created while the worker runs the pipeline of an
\* earlier job: it is queued behind it and no start of the worker is
\* scheduled.
C19_Witness ==
  \E r, q \in Refs :
    /\ r < q
    /\ pipe[r] = "stage1"
    /\ isWorkerRunning
    /\ immediates = 0
    /\ heap[q].status = "queued"
    /\ GetJob(heap[q].id) = q
    /\ jobQueue = <<heap[q].id>>

\* C20: get(id) returns a job exactly when a job was created under id and
\* no delete(id) has come since (liveIds), and then it is the job created
\* last under id; otherwise get(id) is absent and getJobStatus is null.
C20_GetJob ==
  \A id \in Ids :
    IF id \in liveIds
    THEN /\ GetJob(id) \in Refs
         /\ heap[GetJob(id)].id = id
         /\ \A q \in Refs : heap[q].id = id => q <= GetJob(id)
         /\ GetJobStatus(id) # Null
         /\ GetJobStatus(id)[1].id = id
         /\ GetJobStatus(id)[1].status = heap[GetJob(id)].status
    ELSE /\ GetJob(id) = NoJob
         /\ GetJobStatus(id) = Null

\* C20 witness: an id whose job was created and deleted, and another id
\* whose job ended in error and is still returned.
C20_Witness ==
  \E id, other \in Ids :
    /\ id \notin liveIds
    /\ \E r \in Refs : heap[r].id = id
    /\ GetJob(id) = NoJob
    /\ other \in liveIds
    /\ GetJobStatus(other) # Null
    /\ GetJobStatus(other)[1].status = "error"

\* C21: list() holds the jobs of the registry and no other, each once, and
\* no job stands before a job whose createdAt is strictly larger.
C21_ListOrder ==
  LET l == GetAllJobs
  IN /\ {l[i] : i \in 1..Len(l)} = {jobs[id] : id \in liveIds}
     /\ Len(l) = Cardinality(liveIds)
     /\ \A i, k \in 1..Len(l) :
          i < k => heap[l[i]].createdAt >= heap[l[k]].createdAt

\* C21 witness: two registered jobs, the one created later with the larger
\* createdAt, listed in the reverse of the order the registry holds them.
C21_Witness ==
  /\ Len(jobKeys) = 2
  /\ heap[jobs[jobKeys[1]]].createdAt < heap[jobs[jobKeys[2]]].createdAt
  /\ GetAllJobs = <<jobs[jobKeys[2]], jobs[jobKeys[1]]>>

\* C22: a pipeline in flight whose job has left the registry goes on to its
\* return; a step of such a pipeline changes neither the registry nor the
\* listed jobs; a job record is changed only by a step of its own pipeline
\* or by the worker that starts it, so that no job in the registry changes
\* through the pipeline of another job; and an id that is not in the
\* registry enters it only through a create, which appends a new job record.
C22_DeletedJobInFlight ==
  /\ \A r \in 1..MaxJobs :
       (r \in InFlight /\ ~InRegistry(r))
         ~> (r \in Refs /\ pipe[r] = "done")
  /\ [][\A r \in InFlight :
          (~InRegistry(r) /\ (pipe'[r] # pipe[r] \/ heap'[r] # heap[r])) =>
            /\ jobs' = jobs
            /\ GetAllJobs' = GetAllJobs]_vars
  /\ [][\A q \in Refs :
          heap'[q] # heap[q] =>
            \/ q \in InFlight
            \/ /\ pipe[q] = "idle"
               /\ InRegistry(q)
               /\ heap'[q] = ProcessJobStart(heap[q])]_vars
  /\ [][\A id \in Ids :
          (GetJob(id) = NoJob /\ GetJob(id)' # NoJob) =>
            /\ Len(heap') = Len(heap) + 1
            /\ GetJob(id)' = Len(heap')]_vars

\* C22 witness: a pipeline waiting for the storage put whose job was
\* deleted and whose id was created again: the registry holds the new job.
C22_Witness ==
  \E r, q \in Refs :
    /\ r < q
    /\ pipe[r] = "put"
    /\ heap[q].id = heap[r].id
    /\ GetJob(heap[r].id) = q
    /\ heap[q].status = "queued"

\* The visual stage of r has been started: it runs, its spawn has failed
\* and not yet been reported, or it has ended.
VisualStarted(r) ==
  \/ pipe[r] \in {"stage2", "spawnerr2"}
  \/ \E i \in 1..Len(hist[r].exits) : hist[r].exits[i].stage = 2

\* C23: the visual stage of a job is not started before its audio stage has
\* ended, and from then on it has been started exactly if the job asked for
\* it at creation and the audio stage exited 0 with its output present; it
\* is handed the output path of the audio stage as its input; and a job
\* that did not ask for it has at most one stage process, the audio stage.
C23_OptionalStageRun ==
  \A r \in Refs :
    LET x == hist[r].exits
    IN /\ x = <<>> => ~VisualStarted(r)
       /\ x # <<>> =>
            /\ x[1].stage = 1
            /\ VisualStarted(r) <=>
                 (heap[r].visualPerturb /\ x[1].code = 0 /\ x[1].present)
       /\ \A i \in 1..Len(x) :
            x[i].stage = 2 => i = 2 /\ x[i].args[1] = x[1].args[2]
       /\ ~heap[r].visualPerturb =>
            /\ Len(x) <= 1
            /\ pipe[r] \in {"stage1", "spawnerr1"} => x = <<>>

\* C23 witness: a job that asked for the visual stage, whose audio stage
\* exited 0 with its output and whose visual stage has ended.
C23_Witness ==
  \E r \in Refs :
    /\ heap[r].visualPerturb
    /\ Len(hist[r].exits) = 2
    /\ hist[r].exits[1].code = 0
    /\ hist[r].exits[2].stage = 2
    /\ hist[r].exits[2].args = <<OutputPathOf(heap[r]),
                                 VisualOutputPathOf(heap[r])>>

\* The events in the lines of all that a stage has written.
Decoded(text) == Parsed(Lines(text))

\* C24: whenever what the stages of a job have written ends with a newline,
\* the values handed to the callback are the events of the written lines,
\* each once and in the order written, however the text came in chunks.
C24_ChunkingIndependent ==
  \A r \in Refs :
    (hist[r].written # <<>> /\ hist[r].written[Len(hist[r].written)] = NL)
      => hist[r].forwarded = Decoded(hist[r].written)

\* The values handed to the callback of r in the step.
NewlyForwarded(r) ==
  SubSeq(hist'[r].forwarded, Len(hist[r].forwarded) + 1,
         Len(hist'[r].forwarded))

\* C25: a data chunk none of whose lines decodes to a value with a step or
\* an error changes no job, appends no step record, and leaves the
\* pipeline, the worker, the registry and the queue as they are.
C25_MalformedLinesIgnored ==
  [][\A r \in Refs :
       (/\ hist'[r].written # hist[r].written
        /\ \A i \in 1..Len(NewlyForwarded(r)) :
             NewlyForwarded(r)[i] = EmptyEvent) =>
         /\ heap' = heap
         /\ pipe' = pipe
         /\ UNCHANGED <<jobs, jobQueue, isWorkerRunning, immediates, disk,
                        now, putCalls, jobKeys>>]_vars

\* C25 witness: a job whose stage wrote a line that is no JSON and a line
\* that decodes to a value without step and error, and that completed
\* with no step record and no error.
C25_Witness ==
  \E r \in Refs :
    /\ \E i \in 1..Len(hist[r].written) : hist[r].written[i] = Garbage
    /\ EmptyEvent \in {hist[r].forwarded[i] :
                         i \in 1..Len(hist[r].forwarded)}
    /\ heap[r].status = "completed"
    /\ heap[r].steps = <<>>
    /\ heap[r].error = NoError

\* C26: the step that reports a failed spawn of a stage of r ends the
\* pipeline of r: the job has status error, with the exit-code message of
\* the stage and the sentinel code unless an error was already set; its
\* input file is off the disk, the storage put has not been called, no
\* stage is started for r, and the worker goes on: it starts the next
\* runnable job of the queue, or it drains the queue and stops.
C26_SpawnFailure ==
  [][\A r \in Refs :
       (pipe[r] \in {"spawnerr1", "spawnerr2"} /\ pipe'[r] # pipe[r]) =>
         LET nr == NextRunnable(jobQueue, heap)
         IN /\ SpawnErrorCode # 0
            /\ pipe'[r] = "done"
            /\ heap'[r].status = "error"
            /\ heap'[r].error =
                 IF heap[r].status = "error" THEN heap[r].error
                 ELSE IF pipe[r] = "spawnerr1"
                 THEN AudioFailMsg(SpawnErrorCode)
                 ELSE VisualFailMsg(SpawnErrorCode)
            /\ heap[r].inputPath \notin disk'
            /\ putCalls'[r] = 0
            /\ jobQueue' = nr.rest
            /\ IF nr.ref = NoJob
               THEN ~isWorkerRunning' /\ startOrder' = startOrder
               ELSE /\ isWorkerRunning'
                    /\ startOrder' = Append(startOrder, nr.ref)
                    /\ pipe'[nr.ref] \in {"stage1", "spawnerr1"}
                    /\ heap'[nr.ref].status = "processing"]_vars

\* C26 witness: the visual stage of a job failed to spawn, the job ended
\* with the visual exit-code message, and the job queued behind it runs.
C26_Witness ==
  \E r, q \in Refs :
    /\ r < q
    /\ pipe[r] = "done"
    /\ heap[r].error = VisualFailMsg(SpawnErrorCode)
    /\ startOrder = <<r, q>>
    /\ pipe[q] = "stage1"

\* C27: the step that ends the pipeline of a job, on any outcome, unlinks
\* the job's input file: where unlinking succeeds, the file is off the disk
\* when the pipeline returns.
C27_InputUnlinked ==
  [][\A r \in Refs :
       (pipe[r] \notin {"idle", "done"} /\ pipe'[r] = "done") =>
         heap[r].inputPath \notin disk']_vars

\* C27 witness: a pipeline with both stages returned because the final
\* artifact could not be read, and the input file is off the disk.
C27_Witness ==
  \E r \in Refs :
    /\ pipe[r] = "done"
    /\ heap[r].error = StorageFailMsg(ReadError)
    /\ Len(hist[r].exits) = 2
    /\ hist[r].put = NoHist.put
    /\ jobs[heap[r].id] = r
    /\ heap[r].inputPath \notin disk

\* C28: whether the unlinks of a step fail or not, the step leaves the job
\* as it does when they all succeed: a stage that ends leaves the job and
\* the pipeline as the code after the stage does with every unlink
\* succeeding; a storage put that resolves leaves the job completed with
\* its error untouched, a put that is rejected leaves the storage error;
\* and a delete of a registered id takes it out of the registry and changes
\* no job record.
C28_UnlinkFailureHarmless ==
  [][/\ \A id \in Ids :
          (jobs[id] # NoJob /\ \E okIn, okOut \in BOOLEAN :
                                 DeleteJob(id, okIn, okOut)) =>
            jobs'[id] = NoJob /\ heap' = heap
     /\ \A r \in Refs :
          (pipe[r] \in {"stage1", "stage2", "spawnerr1", "spawnerr2"}
             /\ pipe'[r] # pipe[r]) =>
            LET x == hist'[r].exits[Len(hist'[r].exits)]
                out == IF x.stage = 1 THEN OutputPathOf(heap[r])
                                      ELSE VisualOutputPathOf(heap[r])
                d == IF x.present THEN disk \cup {out} ELSE disk
            IN \E spawnOk, readOk \in BOOLEAN :
                 LET res == IF x.stage = 1
                            THEN AfterAudio(heap[r], d, x.code, spawnOk,
                                            readOk, TRUE)
                            ELSE AfterVisual(heap[r], d, x.code, readOk,
                                             TRUE, TRUE)
                 IN heap'[r] = res.job /\ pipe'[r] = res.pc
     /\ \A r \in Refs :
          (pipe[r] = "put" /\ pipe'[r] = "done") =>
            IF hist'[r].put[1] = "resolved"
            THEN /\ heap'[r].status = "completed"
                 /\ heap'[r].error = heap[r].error
            ELSE /\ heap'[r].status = "error"
                 /\ heap'[r].error = StorageFailMsg(hist'[r].put[2])]_vars

\* C28 witness: a two-stage job completed although none of its unlinks
\* succeeded: the input, the intermediate and the final artifact are all
\* on the disk after its pipeline has returned.
C28_Witness ==
  \E r \in Refs :
    /\ pipe[r] = "done"
    /\ heap[r].status = "completed"
    /\ heap[r].visualPerturb
    /\ heap[r].inputPath \in disk
    /\ OutputPathOf(heap[r]) \in disk
    /\ VisualOutputPathOf(heap[r]) \in disk

\* C29: the running flag is cleared only by a step that leaves the queue
\* empty; whenever the queue holds an id, a worker is running or a worker
\* start is scheduled; and a queue that holds an id is eventually empty.
C29_NoLostWakeup ==
  /\ [][(isWorkerRunning /\ ~isWorkerRunning') => jobQueue' = <<>>]_vars
  /\ [](jobQueue # <<>> => (isWorkerRunning \/ immediates > 0))
  /\ (jobQueue # <<>>) ~> (jobQueue = <<>>)

\* C29 witness: two creates each scheduled a worker start; the first start
\* ran both jobs and cleared the flag over an empty queue, and the second
\* start is still scheduled.
C29_Witness ==
  /\ jobQueue = <<>>
  /\ ~isWorkerRunning
  /\ immediates = 1
  /\ Len(startOrder) = 2
  /\ \A r \in Refs : pipe[r] = "done"

\* C30: no job record is handed to the pipeline twice: the records the
\* worker has started are pairwise distinct, however often their ids
\* occur in the queue.
C30_StartedOnce ==
  \A i, k \in 1..Len(startOrder) :
    startOrder[i] = startOrder[k] => i = k

\* C30 witness: an id was created, deleted and created again while its
\* first entry was queued; the worker has shifted both entries and has run
\* the pipeline of the second record once and of the first never.
C30_Witness ==
  /\ Len(heap) = 2
  /\ heap[1].id = heap[2].id
  /\ startOrder = <<2>>
  /\ pipe[1] = "idle"
  /\ pipe[2] = "done"
  /\ jobQueue = <<>>
  /\ ~isWorkerRunning

\* C31: a job whose status is completed is changed by no later step: its
\* status, progress, downloadUrl, completedAt, expiresAt and steps stay as
\* they are, and its progress is 100.
C31_CompletedIsTerminal ==
  [][\A r \in Refs :
       heap[r].status = "completed" =>
         /\ heap[r].progress = DoneProgress
         /\ heap'[r].status = heap[r].status
         /\ heap'[r].progress = heap[r].progress
         /\ heap'[r].downloadUrl = heap[r].downloadUrl
         /\ heap'[r].completedAt = heap[r].completedAt
         /\ heap'[r].expiresAt = heap[r].expiresAt
         /\ heap'[r].steps = heap[r].steps]_vars

\* C31 witness: a job completed with a step record; its id was created
\* again, the second job ran to the end of its pipeline after the first,
\* and the first job is still as it completed.
C31_Witness ==
  \E r, q \in Refs :
    /\ heap[r].status = "completed"
    /\ heap[r].steps # <<>>
    /\ heap[q].id = heap[r].id
    /\ startOrder = <<r, q>>
    /\ pipe[q] = "done"
    /\ heap[r].completedAt # Undef
    /\ heap[r].expiresAt = heap[r].completedAt + RetentionMs
    /\ heap[r].progress = DoneProgress
    /\ heap[r].downloadUrl = Url

\* C32: a job that the registry holds is still held after every step that
\* is not a delete of its id: no other step removes or replaces its entry.
C32_LeavesOnlyByDelete ==
  [][\A r \in Refs :
       (InRegistry(r) /\ jobs'[heap[r].id] # r) =>
         \E okIn, okOut \in BOOLEAN : DeleteJob(heap[r].id, okIn, okOut)]_vars

\* The local files made for the job j: its input and the outputs of its
\* two stages.
Artifacts(j) == {j.inputPath, OutputPathOf(j), VisualOutputPathOf(j)}

\* C33: once the pipeline of a job has returned and the job has been
\* deleted, none of the job's local files is on the disk (every unlink
\* succeeding).
C33_NoArtifactLeft ==
  \A r \in Refs :
    (pipe[r] = "done" /\ ~InRegistry(r)) => Artifacts(heap[r]) \cap disk = {}
====
